---- MODULE Spec2Model ----
(***************************************************************************)
(* URL-shortener backend (src/backend-test-submission/server.js).          *)
(*                                                                         *)
(* The store is two JavaScript Maps, urlDatabase and clickAnalytics, both  *)
(* keyed by short code.  A Map keeps its entries in insertion order, so a  *)
(* Map is modelled as a sequence of [key, value] entries.  Every request   *)
(* handler and the sweep timer callback run to completion on the single    *)
(* event-loop thread, so each is one action; the only place a handler can  *)
(* stay for more than one step is the do/while retry loop that generates a *)
(* random short code, which is modelled one iteration per step.            *)
(*                                                                         *)
(* Time is the value of the wall clock, new Date(), counted in minutes.    *)
(* A short code, a URL and a short link are sequences of characters.       *)
(*                                                                         *)
(* The logger (src/logging-middleware/index.js) keeps its entries in the   *)
(* process-wide array global.affordmedLogs.  The logger is followed in its *)
(* own specifications; the specifications of the store do not follow the   *)
(* lines the handlers write to it.                                         *)
(*                                                                         *)
(* The shortener form of the frontend (UrlShortener.js) keeps its list of  *)
(* URL input entries in the React state urls; it is followed in its own    *)
(* specification.  React renders again after each click, so each call of   *)
(* addUrlInput or removeUrlInput sees the list the call before it left.    *)
(***************************************************************************)
EXTENDS Integers, Sequences, FiniteSets, TLC

VARIABLES
    urlDatabase,     \* Map shortCode -> urlRecord, in insertion order
    clickAnalytics,  \* Map shortCode -> array of click events
    now,             \* the wall clock read by new Date()
    alloc,           \* the POST request retrying in the code-generation loop, or Idle
    resp,            \* what the last step sent out: an HTTP response, the sweep's
                     \* log line, or NoResp
    hits,            \* history: the times of the 302 answers for each stored code
    logLevel,        \* AffordmedLogger: this.logLevel
    currentLevel,    \* AffordmedLogger: this.currentLevel
    affordmedLogs,   \* global.affordmedLogs, the stored log entries
    accepted,        \* history: the log calls stored since the array was last emptied
    urls             \* frontend, UrlShortener: the state urls, the URL input entries

storeVars == <<urlDatabase, clickAnalytics, now, alloc, resp, hits>>

logVars == <<logLevel, currentLevel, affordmedLogs, accepted>>

formVars == <<urls>>

vars == <<urlDatabase, clickAnalytics, now, alloc, resp, hits,
          logLevel, currentLevel, affordmedLogs, accepted, urls>>

---------------------------------------------------------------------------
(* Bounds of the model *)

MaxTime == 2        \* the clock runs from 0 to MaxTime
MaxClicks == 2      \* at most this many click events are kept in the whole store
MaxLogCalls == 3    \* log calls stored between two clearLogs, where the levels vary
MaxOverflow == 2    \* log calls stored beyond the capacity of the log array
MaxId == 8          \* the largest id an entry of the shortener form is given

---------------------------------------------------------------------------
(* Program constants *)

DefaultValidity == 30
CodeLength == 6
MinCodeLen == 3
MaxCodeLen == 10

chars == << "a","b","c","d","e","f","g","h","i","j","k","l","m",
            "n","o","p","q","r","s","t","u","v","w","x","y","z",
            "A","B","C","D","E","F","G","H","I","J","K","L","M",
            "N","O","P","Q","R","S","T","U","V","W","X","Y","Z",
            "0","1","2","3","4","5","6","7","8","9" >>

\* the characters of chars, as a set
Alphabet == { chars[i] : i \in 1..Len(chars) }

---------------------------------------------------------------------------
(* JavaScript Map, as a sequence of entries in insertion order *)

MapHas(m, k) == \E i \in 1..Len(m) : m[i].key = k

MapGet(m, k) == m[CHOOSE i \in 1..Len(m) : m[i].key = k].value

MapSet(m, k, v) ==
    IF MapHas(m, k)
    THEN [ i \in 1..Len(m) |-> IF m[i].key = k THEN [key |-> k, value |-> v] ELSE m[i] ]
    ELSE Append(m, [key |-> k, value |-> v])

MapDelete(m, k) == SelectSeq(m, LAMBDA e : e.key # k)

---------------------------------------------------------------------------
(* Dates: toISOString() and new Date(string) *)

ToISOString(t) == [iso |-> t]

ParseDate(s) == s.iso

\* (mutant) >= in place of >: a record counts as expired at its expiry instant
IsExpiredAtExpiry(expiryDate) == now >= ParseDate(expiryDate)

\* isExpired(expiryDate): new Date() > new Date(expiryDate)
IsExpired(expiryDate) == now > ParseDate(expiryDate)

---------------------------------------------------------------------------
(* Helper functions of the server *)

\* The outcomes of Math.floor(Math.random() * chars.length) over the six
\* iterations of generateShortCode, as 1-based indexes into chars.
RandomDraws == { <<1, 1, 1, 1, 1, 1>>, <<1, 1, 1, 1, 1, 2>> }

generateShortCode(draw) == [ i \in 1..CodeLength |-> chars[draw[i]] ]

\* (mutant) the pattern has + in place of {3,10}: any length from 1 passes
isValidShortCodeAnyLength(code) ==
    /\ Len(code) >= 1
    /\ \A i \in 1..Len(code) : code[i] \in Alphabet

\* /^[a-zA-Z0-9]{3,10}$/.test(code)
isValidShortCode(code) ==
    /\ Len(code) >= MinCodeLen
    /\ Len(code) <= MaxCodeLen
    /\ \A i \in 1..Len(code) : code[i] \in Alphabet

\* (mutant) the protocol test is missing: every URL that parses is accepted
isValidUrlAnyScheme(urlString) ==
    /\ Len(urlString) = 2
    /\ urlString[1] # ""

\* A URL string is <<scheme, rest>>; new URL() throws when there is no scheme.
isValidUrl(urlString) ==
    /\ Len(urlString) = 2
    /\ urlString[1] # ""
    /\ urlString[1] \in {"http:", "https:"}

---------------------------------------------------------------------------
(* Request inputs *)

NoUrl == << >>   \* url missing from the body, or the empty string

\* The validity field of the body.
Validity(kind, n) == [kind |-> kind, n |-> n]

\* const { validity = 30 } = req.body : the default replaces undefined only
WithDefault(v) == IF v.kind = "undefined" THEN Validity("int", DefaultValidity) ELSE v

\* JavaScript truthiness of the validity value
Truthy(v) ==
    CASE v.kind = "int" -> v.n # 0
      [] v.kind = "float" -> TRUE
      [] v.kind = "string" -> TRUE
      [] OTHER -> FALSE

IsInteger(v) == v.kind = "int"

\* validity && (!Number.isInteger(validity) || validity < 1)
validityRejected(v) == Truthy(v) /\ (~IsInteger(v) \/ v.n < 1)

\* what getMinutes() + validity adds for a value that passed the check
MinutesAdded(v) == IF v.kind = "int" THEN v.n ELSE 0

NoCode == << >>   \* shortcode missing from the body, or the empty string

ShortcodeInputs ==
    { NoCode,
      <<"a","b">>,
      <<"a","-","c">>,
      <<"a","b","c","d","e","f","g","h","i","j","k">> }
    \cup { generateShortCode(d) : d \in RandomDraws }

\* every key the store can hold
Codes == { c \in ShortcodeInputs : isValidShortCode(c) }

\* the literal path segments of the routes
SegShorturls == << "s","h","o","r","t","u","r","l","s" >>
SegApi == << "a","p","i" >>
SegUrls == << "u","r","l","s" >>
SegHealth == << "h","e","a","l","t","h" >>

\* every key the store is given in some specification
Keys == Codes \cup {SegHealth}

NoReferer == "null"

Origin == << "h","t","t","p",":","/","/","h" >>

\* (mutant) the "/" between host and code is missing
ShortLinkNoSlash(code) == Origin \o code

\* `${req.protocol}://${req.get('host')}/${shortCode}`
ShortLinkOf(code) == Origin \o << "/" >> \o code

\* the trailing path segment of a link: what follows its last "/"
TrailingSegment(link) ==
    LET slashes == { i \in 1..Len(link) : link[i] = "/" }
        last == CHOOSE i \in slashes : \A j \in slashes : j <= i
    IN SubSeq(link, last + 1, Len(link))

---------------------------------------------------------------------------
(* The logger: class AffordmedLogger, on the server (typeof window is      *)
(* 'undefined', so the entries go to global.affordmedLogs)                 *)

levels == [error |-> 0, warn |-> 1, info |-> 2, debug |-> 3]

LevelNames == DOMAIN levels

Undefined == "undefined"   \* an option that is not given

\* the capacity of the stored array: if (length > 1000) shift()
MaxStoredLogs == 1000

ToUpperCase(level) ==
    CASE level = "error" -> "ERROR"
      [] level = "warn"  -> "WARN"
      [] level = "info"  -> "INFO"
      [] level = "debug" -> "DEBUG"

\* this.logLevel = options.logLevel || 'info'
LogLevelOf(options) ==
    IF options.logLevel = Undefined THEN "info" ELSE options.logLevel

\* this.levels[this.logLevel] || this.levels.info : the right side is taken
\* when the lookup is undefined and when it is 0, both being falsy
CurrentLevelOf(name) ==
    IF name \in LevelNames /\ levels[name] # 0 THEN levels[name] ELSE levels.info

\* the state new AffordmedLogger(options) leaves, in a fresh process
constructor(options) ==
    /\ logLevel = LogLevelOf(options)
    /\ currentLevel = CurrentLevelOf(LogLevelOf(options))
    /\ affordmedLogs = << >>
    /\ accepted = 0

shouldLog(level) == levels[level] <= currentLevel

\* the structured entry of formatMessage
formatMessage(level, message) ==
    [ timestamp   |-> ToISOString(now),
      service     |-> "URL-SHORTENER-BACKEND",
      level       |-> ToUpperCase(level),
      message     |-> message,
      environment |-> "development" ]

\* (mutant) pop() instead of shift(): the newest entry is dropped
storeLogPop(logs, logEntry) ==
    LET pushed == Append(logs, logEntry) IN
    IF Len(pushed) > MaxStoredLogs THEN SubSeq(pushed, 1, Len(pushed) - 1) ELSE pushed

\* push(logEntry); if (length > 1000) shift()
storeLog(logs, logEntry) ==
    LET pushed == Append(logs, logEntry) IN
    IF Len(pushed) > MaxStoredLogs THEN Tail(pushed) ELSE pushed

---------------------------------------------------------------------------
(* The shortener form: function UrlShortener *)

\* if (urls.length >= 5) return
MaxUrlInputs == 5

\* { id, url: '', validity: 30, shortcode: '', error: '', result: null }
UrlEntry(id) ==
    [ id |-> id, url |-> "", validity |-> DefaultValidity, shortcode |-> "",
      error |-> "", result |-> "null" ]

\* useState([{ id: 1, ... }])
InitForm == urls = << UrlEntry(1) >>

\* Math.max(...list.map(u => u.id)), for a list that is not empty
MaxIdOf(list) ==
    LET ids == { list[i].id : i \in 1..Len(list) }
    IN CHOOSE m \in ids : \A k \in ids : k <= m

\* (mutant) the id is taken from the length of the list
NewIdByLength(list) == Len(list) + 1

\* const newId = Math.max(...urls.map(u => u.id)) + 1
NewId(list) == MaxIdOf(list) + 1

---------------------------------------------------------------------------
(* State *)

Idle == [state |-> "idle"]

NoResp == [op |-> "none", status |-> 0]

TotalClicks ==
    LET RECURSIVE Sum(_)
        Sum(i) == IF i = 0 THEN 0 ELSE Len(clickAnalytics[i].value) + Sum(i - 1)
    IN Sum(Len(clickAnalytics))

\* the store when the server starts
InitStore ==
    /\ urlDatabase = << >>
    /\ clickAnalytics = << >>
    /\ now = 0
    /\ alloc = Idle
    /\ resp = NoResp
    /\ hits = [c \in Keys |-> << >>]

\* the server starts with its logger created with logLevel: 'info'
Init ==
    /\ InitStore
    /\ InitForm
    /\ constructor([logLevel |-> "info"])

\* res.status(status).json({error, message})
Error(op, status, error) ==
    [op |-> op, status |-> status, body |-> [error |-> error]]

---------------------------------------------------------------------------
(* POST /shorturls *)

\* (mutant) the creation is counted as the first visit
urlRecordCounted(url, shortCodeToUse, minutes) ==
    [ originalUrl |-> url,
      shortCode   |-> shortCodeToUse,
      createdAt   |-> ToISOString(now),
      expiry      |-> ToISOString(now + minutes),
      clicks      |-> 1 ]

urlRecord(url, shortCodeToUse, minutes) ==
    [ originalUrl |-> url,
      shortCode   |-> shortCodeToUse,
      createdAt   |-> ToISOString(now),
      expiry      |-> ToISOString(now + minutes),
      clicks      |-> 0 ]

\* (mutant) clickAnalytics.set(shortCodeToUse, []) is missing
InsertRecordOnly(url, shortCodeToUse, minutes) ==
    /\ urlDatabase' = MapSet(urlDatabase, shortCodeToUse,
                             urlRecord(url, shortCodeToUse, minutes))
    /\ clickAnalytics' = clickAnalytics
    /\ resp' = [ op |-> "create", status |-> 201,
                 body |-> [ shortLink |-> ShortLinkOf(shortCodeToUse),
                            expiry |-> ToISOString(now + minutes) ] ]
    /\ hits' = [hits EXCEPT ![shortCodeToUse] = << >>]

\* lines 111-136: build the record, store it in both maps, answer 201
Insert(url, shortCodeToUse, minutes) ==
    /\ urlDatabase' = MapSet(urlDatabase, shortCodeToUse,
                             urlRecord(url, shortCodeToUse, minutes))
    /\ clickAnalytics' = MapSet(clickAnalytics, shortCodeToUse, << >>)
    /\ resp' = [ op |-> "create", status |-> 201,
                 body |-> [ shortLink |-> ShortLinkOf(shortCodeToUse),
                            expiry |-> ToISOString(now + minutes) ] ]
    /\ hits' = [hits EXCEPT ![shortCodeToUse] = << >>]

\* (mutant) the has() check before a custom code is used is missing
ShortcodeTakenNever(shortcode) == FALSE

\* (mutant) the has() check that closes the retry loop is missing
GeneratedTakenNever(shortCodeToUse) == FALSE

\* if (urlDatabase.has(shortcode)) : the custom shortcode is refused as taken
ShortcodeTaken(shortcode) == MapHas(urlDatabase, shortcode)

\* (mutant) a generated code counts as taken only while its record is live
GeneratedTakenLive(shortCodeToUse) ==
    /\ MapHas(urlDatabase, shortCodeToUse)
    /\ ~IsExpired(MapGet(urlDatabase, shortCodeToUse).expiry)

\* while (urlDatabase.has(shortCodeToUse)) : the generated code is refused, draw again
GeneratedTaken(shortCodeToUse) == MapHas(urlDatabase, shortCodeToUse)

\* (mutant) the click log is set up before the checks, under the empty key
\* for want of a code: a refused body leaves an empty log behind
RejectLeavingLog(status, error) ==
    /\ resp' = Error("create", status, error)
    /\ clickAnalytics' = MapSet(clickAnalytics, NoCode, << >>)
    /\ UNCHANGED <<urlDatabase, alloc, hits>>

\* the handler answers with an error and stores nothing
Reject(status, error) ==
    /\ resp' = Error("create", status, error)
    /\ UNCHANGED <<urlDatabase, clickAnalytics, alloc, hits>>

\* one pass through the body of  do { shortCodeToUse = generateShortCode() }
\*                               while (urlDatabase.has(shortCodeToUse))
\* for the request (url, minutes): it either leaves the loop and stores the
\* record, or stays in the loop with nothing answered.
Generate(url, minutes) ==
    \E draw \in RandomDraws :
        LET shortCodeToUse == generateShortCode(draw) IN
        IF GeneratedTaken(shortCodeToUse)
        THEN /\ alloc' = [state |-> "generating", url |-> url, minutes |-> minutes]
             /\ resp' = NoResp
             /\ UNCHANGED <<urlDatabase, clickAnalytics, hits>>
        ELSE /\ Insert(url, shortCodeToUse, minutes)
             /\ alloc' = Idle

CreateShortUrl(url, validityField, shortcode) ==
    LET validity == WithDefault(validityField) IN
    /\ alloc = Idle
    /\ UNCHANGED now
    /\ UNCHANGED <<logVars, formVars>>
    /\ IF url = NoUrl
       THEN Reject(400, "URL is required")
       ELSE IF ~isValidUrl(url)
       THEN Reject(400, "Invalid URL format")
       ELSE IF validityRejected(validity)
       THEN Reject(400, "Invalid validity period")
       ELSE IF shortcode # NoCode
       THEN IF ~isValidShortCode(shortcode)
            THEN Reject(400, "Invalid shortcode format")
            ELSE IF ShortcodeTaken(shortcode)
            THEN Reject(409, "Shortcode already exists")
            ELSE /\ Insert(url, shortcode, MinutesAdded(validity))
                 /\ UNCHANGED alloc
       ELSE Generate(url, MinutesAdded(validity))

\* a further iteration of the do/while loop, after the generated code was taken
GenerateStep ==
    /\ alloc # Idle
    /\ UNCHANGED now
    /\ UNCHANGED <<logVars, formVars>>
    /\ Generate(alloc.url, alloc.minutes)

---------------------------------------------------------------------------
(* GET /shorturls/:shortCode *)

\* click => ({timestamp, referrer || 'Direct', location || 'Unknown'})
RenderClick(click) ==
    [ timestamp |-> click.timestamp,
      referrer  |-> IF click.referrer = NoReferer THEN "Direct" ELSE click.referrer,
      location  |-> IF click.location = "" THEN "Unknown" ELSE click.location ]

\* clickAnalytics.get(shortCode) || []
ClicksOf(shortCode) ==
    IF MapHas(clickAnalytics, shortCode) THEN MapGet(clickAnalytics, shortCode) ELSE << >>

\* (mutant) the lookup of a read does not test the expiry
LookupStatusNoExpiry(shortCode) ==
    IF ~MapHas(urlDatabase, shortCode) THEN 404 ELSE 200

\* (mutant) a record is served for one more minute after its expiry
LookupStatusGrace(shortCode) ==
    IF ~MapHas(urlDatabase, shortCode) THEN 404
    ELSE IF now > ParseDate(MapGet(urlDatabase, shortCode).expiry) + 1 THEN 410
    ELSE 200

\* lines 151-169 and 200-218: what the lookup of a read decides, as a status
LookupStatus(shortCode) ==
    IF ~MapHas(urlDatabase, shortCode) THEN 404
    ELSE IF IsExpired(MapGet(urlDatabase, shortCode).expiry) THEN 410
    ELSE 200

\* (mutant) the lazy expiry forgets clickAnalytics.delete(shortCode)
ExpireOnReadKeepClicks(op, shortCode) ==
    /\ urlDatabase' = MapDelete(urlDatabase, shortCode)
    /\ clickAnalytics' = clickAnalytics
    /\ hits' = [hits EXCEPT ![shortCode] = << >>]
    /\ resp' = Error(op, 410, "Short URL expired")

\* (mutant) the lazy expiry clears both maps instead of deleting one key
ExpireOnReadAll(op, shortCode) ==
    /\ urlDatabase' = << >>
    /\ clickAnalytics' = << >>
    /\ hits' = [c \in DOMAIN hits |-> << >>]
    /\ resp' = Error(op, 410, "Short URL expired")

\* (mutant) the lazy expiry forgets urlDatabase.delete(shortCode)
ExpireOnReadKeepRecord(op, shortCode) ==
    /\ urlDatabase' = urlDatabase
    /\ clickAnalytics' = MapDelete(clickAnalytics, shortCode)
    /\ hits' = [hits EXCEPT ![shortCode] = << >>]
    /\ resp' = Error(op, 410, "Short URL expired")

\* the lazy expiry of a read: both maps drop the key, the answer is 410
ExpireOnRead(op, shortCode) ==
    /\ urlDatabase' = MapDelete(urlDatabase, shortCode)
    /\ clickAnalytics' = MapDelete(clickAnalytics, shortCode)
    /\ hits' = [hits EXCEPT ![shortCode] = << >>]
    /\ resp' = Error(op, 410, "Short URL expired")

StatsBody(shortCode) ==
    LET urlData == MapGet(urlDatabase, shortCode)
        clickData == ClicksOf(shortCode)
    IN [ clicks |-> urlData.clicks,
         originalUrl |-> urlData.originalUrl,
         createdAt |-> urlData.createdAt,
         expiry |-> urlData.expiry,
         clickData |-> [ i \in 1..Len(clickData) |-> RenderClick(clickData[i]) ] ]

GetStats(shortCode) ==
    /\ alloc = Idle
    /\ UNCHANGED <<now, alloc>>
    /\ UNCHANGED <<logVars, formVars>>
    /\ IF LookupStatus(shortCode) = 404
       THEN /\ resp' = Error("stats", 404, "Short URL not found")
            /\ UNCHANGED <<urlDatabase, clickAnalytics, hits>>
       ELSE IF LookupStatus(shortCode) = 410
       THEN ExpireOnRead("stats", shortCode)
       ELSE /\ resp' = [op |-> "stats", status |-> 200, body |-> StatsBody(shortCode)]
            /\ UNCHANGED <<urlDatabase, clickAnalytics, hits>>

---------------------------------------------------------------------------
(* GET /:shortCode *)

\* req.get('Referer') || null : an absent header (NoReferer stands for it) and
\* an empty one are stored as null, for which NoReferer stands as well
RefererOrNull(referer) == IF referer \in {NoReferer, ""} THEN NoReferer ELSE referer

\* (mutant) the default of the referrer is applied when the click is stored
ClickEventDirect(referer) ==
    [ timestamp |-> ToISOString(now),
      referrer  |-> IF RefererOrNull(referer) = NoReferer THEN "Direct" ELSE referer,
      userAgent |-> "agent",
      ip        |-> "::1",
      location  |-> "Unknown" ]

\* lines 220-226: the click as it is stored
ClickEvent(referer) ==
    [ timestamp |-> ToISOString(now),
      referrer  |-> RefererOrNull(referer),
      userAgent |-> "agent",
      ip        |-> "::1",
      location  |-> "Unknown" ]

\* (mutant) the click is logged but urlData.clicks++ is missing
RecordClickUncounted(shortCode, clickData) ==
    /\ urlDatabase' = urlDatabase
    /\ clickAnalytics' = MapSet(clickAnalytics, shortCode,
                                Append(ClicksOf(shortCode), clickData))

\* (mutant) unshift instead of push: the click goes to the front of the log
RecordClickFirst(shortCode, clickData) ==
    LET urlData == MapGet(urlDatabase, shortCode) IN
    /\ urlDatabase' = MapSet(urlDatabase, shortCode, [urlData EXCEPT !.clicks = @ + 1])
    /\ clickAnalytics' = MapSet(clickAnalytics, shortCode,
                                <<clickData>> \o ClicksOf(shortCode))

\* (mutant) a visit also renews the link: expiry is moved to now + 30 minutes
RecordClickRenew(shortCode, clickData) ==
    LET urlData == MapGet(urlDatabase, shortCode) IN
    /\ urlDatabase' = MapSet(urlDatabase, shortCode,
                             [urlData EXCEPT !.clicks = @ + 1,
                                             !.expiry = ToISOString(now + DefaultValidity)])
    /\ clickAnalytics' = MapSet(clickAnalytics, shortCode,
                                Append(ClicksOf(shortCode), clickData))

\* lines 228-231: count the click and append it to the code's click log
RecordClick(shortCode, clickData) ==
    LET urlData == MapGet(urlDatabase, shortCode) IN
    /\ urlDatabase' = MapSet(urlDatabase, shortCode, [urlData EXCEPT !.clicks = @ + 1])
    /\ clickAnalytics' = MapSet(clickAnalytics, shortCode,
                                Append(ClicksOf(shortCode), clickData))

Redirect(shortCode, referer) ==
    /\ alloc = Idle
    /\ UNCHANGED <<now, alloc>>
    /\ UNCHANGED <<logVars, formVars>>
    /\ IF LookupStatus(shortCode) = 404
       THEN /\ resp' = Error("redirect", 404, "Short URL not found")
            /\ UNCHANGED <<urlDatabase, clickAnalytics, hits>>
       ELSE IF LookupStatus(shortCode) = 410
       THEN ExpireOnRead("redirect", shortCode)
       ELSE /\ TotalClicks < MaxClicks
            /\ RecordClick(shortCode, ClickEvent(referer))
            /\ hits' = [hits EXCEPT ![shortCode] = Append(@, now)]
            /\ resp' = [ op |-> "redirect", status |-> 302,
                         body |-> [ location |->
                                      MapGet(urlDatabase, shortCode).originalUrl ] ]

---------------------------------------------------------------------------
(* GET /api/urls *)

Project(entry) ==
    [ shortCode   |-> entry.key,
      originalUrl |-> entry.value.originalUrl,
      shortLink   |-> ShortLinkOf(entry.key),
      createdAt   |-> entry.value.createdAt,
      expiry      |-> entry.value.expiry,
      clicks      |-> entry.value.clicks ]

\* (mutant) the loop pushes every record, without the isExpired test
allUrlsUnfiltered == [ i \in 1..Len(urlDatabase) |-> Project(urlDatabase[i]) ]

\* the loop over urlDatabase.entries() that pushes the unexpired records
allUrls ==
    LET kept == SelectSeq(urlDatabase, LAMBDA e : ~IsExpired(e.value.expiry))
    IN [ i \in 1..Len(kept) |-> Project(kept[i]) ]

\* (mutant) the scan deletes the expired records it meets, as the reads do
ListUrlsPruning ==
    /\ alloc = Idle
    /\ resp' = [op |-> "list", status |-> 200, body |-> [urls |-> allUrls]]
    /\ urlDatabase' = SelectSeq(urlDatabase, LAMBDA e : ~IsExpired(e.value.expiry))
    /\ clickAnalytics' =
         SelectSeq(clickAnalytics,
                   LAMBDA e : ~(/\ MapHas(urlDatabase, e.key)
                                /\ IsExpired(MapGet(urlDatabase, e.key).expiry)))
    /\ hits' = [c \in DOMAIN hits |->
                  IF MapHas(urlDatabase, c) /\ ~IsExpired(MapGet(urlDatabase, c).expiry)
                  THEN hits[c] ELSE << >>]
    /\ UNCHANGED <<now, alloc>>
    /\ UNCHANGED <<logVars, formVars>>

ListUrls ==
    /\ alloc = Idle
    /\ resp' = [op |-> "list", status |-> 200, body |-> [urls |-> allUrls]]
    /\ UNCHANGED <<urlDatabase, clickAnalytics, now, alloc, hits>>
    /\ UNCHANGED <<logVars, formVars>>

---------------------------------------------------------------------------
(* The sweep timer: setInterval(..., 60000) / cron.schedule('* * * * *').    *)
(* The cron variant logs 'Expired URL cleanup' with the number removed when *)
(* it removed something; that line is the output of the step.               *)

RECURSIVE SweepLoopKeepClicks(_, _, _)
\* (mutant) the sweep forgets clickAnalytics.delete(code)
SweepLoopKeepClicks(entries, db, ca) ==
    IF entries = << >>
    THEN [db |-> db, ca |-> ca]
    ELSE IF IsExpired(Head(entries).value.expiry)
         THEN SweepLoopKeepClicks(Tail(entries), MapDelete(db, Head(entries).key), ca)
         ELSE SweepLoopKeepClicks(Tail(entries), db, ca)

RECURSIVE SweepLoopFirstOnly(_, _, _)
\* (mutant) the loop ends after the first record it removes
SweepLoopFirstOnly(entries, db, ca) ==
    IF entries = << >>
    THEN [db |-> db, ca |-> ca]
    ELSE IF IsExpired(Head(entries).value.expiry)
         THEN [ db |-> MapDelete(db, Head(entries).key),
                ca |-> MapDelete(ca, Head(entries).key) ]
         ELSE SweepLoopFirstOnly(Tail(entries), db, ca)

RECURSIVE SweepLoop(_, _, _)
\* entries: what the iterator has still to visit; db, ca: the maps so far
SweepLoop(entries, db, ca) ==
    IF entries = << >>
    THEN [db |-> db, ca |-> ca]
    ELSE LET code == Head(entries).key
             data == Head(entries).value
         IN IF IsExpired(data.expiry)
            THEN SweepLoop(Tail(entries), MapDelete(db, code), MapDelete(ca, code))
            ELSE SweepLoop(Tail(entries), db, ca)

Sweep ==
    /\ alloc = Idle
    /\ LET swept == SweepLoop(urlDatabase, urlDatabase, clickAnalytics) IN
         /\ urlDatabase' = swept.db
         /\ clickAnalytics' = swept.ca
         /\ hits' = [c \in Keys |-> IF MapHas(swept.db, c) THEN hits[c] ELSE << >>]
         /\ resp' = IF Len(swept.db) < Len(urlDatabase)
                    THEN [ op |-> "sweep", status |-> 0,
                           removedCount |-> Len(urlDatabase) - Len(swept.db) ]
                    ELSE NoResp
    /\ UNCHANGED <<now, alloc>>
    /\ UNCHANGED <<logVars, formVars>>

---------------------------------------------------------------------------
(* The wall clock *)

Tick ==
    /\ now < MaxTime
    /\ now' = now + 1
    /\ resp' = NoResp
    /\ UNCHANGED <<urlDatabase, clickAnalytics, alloc, hits>>
    /\ UNCHANGED <<logVars, formVars>>

---------------------------------------------------------------------------
(* GET requests through the route table.  Express tries the routes in the   *)
(* order of their registration and the first handler whose pattern matches *)
(* answers; no handler here calls next().  The order is that of the variant *)
(* of the server that has the health check: /shorturls/:shortCode,          *)
(* /:shortCode, /api/urls, /health, and the 404 handler last.               *)

\* app.get('/health'): process.uptime() is left out of the body
Health ==
    /\ alloc = Idle
    /\ resp' = [ op |-> "health", status |-> 200,
                 body |-> [ status |-> "healthy",
                            timestamp |-> ToISOString(now),
                            totalUrls |-> Len(urlDatabase) ] ]
    /\ UNCHANGED <<urlDatabase, clickAnalytics, now, alloc, hits>>
    /\ UNCHANGED <<logVars, formVars>>

\* app.use((req, res) => res.status(404)...)
RouteNotFound ==
    /\ alloc = Idle
    /\ resp' = Error("route", 404, "Route not found")
    /\ UNCHANGED <<urlDatabase, clickAnalytics, now, alloc, hits>>
    /\ UNCHANGED <<logVars, formVars>>

\* a GET request for the path with the given segments
Get(path, referer) ==
    IF Len(path) = 2 /\ path[1] = SegShorturls THEN GetStats(path[2])
    ELSE IF Len(path) = 1 THEN Redirect(path[1], referer)
    ELSE IF path = << SegApi, SegUrls >> THEN ListUrls
    ELSE IF path = << SegHealth >> THEN Health
    ELSE RouteNotFound

GetPaths ==
    { << SegHealth >>,
      << SegShorturls, SegHealth >>,
      << SegApi, SegUrls >>,
      << SegApi, SegHealth >> }

\* a one-minute link and a long-lived link under the custom code 'health'
HealthInputs ==
    { << << <<"http:", "//a.org/x">>, Validity("int", 1) >>, SegHealth >>,
      << << <<"https:", "//example.com">>, Validity("undefined", 0) >>, SegHealth >> }

HealthNext ==
    \/ \E in \in HealthInputs : CreateShortUrl(in[1][1], in[1][2], in[2])
    \/ \E path \in GetPaths : Get(path, NoReferer)
    \/ Sweep
    \/ Tick

HealthSpec == Init /\ [][HealthNext]_vars

---------------------------------------------------------------------------
(* Calls on the logger.  The message of a call is the number of the call   *)
(* among those stored since the array was last emptied, so that every      *)
(* stored entry can be told from the others.                               *)

Log(level, message) ==
    /\ IF shouldLog(level)
       THEN /\ affordmedLogs' = storeLog(affordmedLogs, formatMessage(level, message))
            /\ accepted' = accepted + 1
       ELSE UNCHANGED <<affordmedLogs, accepted>>
    /\ UNCHANGED <<logLevel, currentLevel>>
    /\ UNCHANGED <<storeVars, formVars>>

ClearLogs ==
    /\ affordmedLogs' = << >>
    /\ accepted' = 0
    /\ UNCHANGED <<logLevel, currentLevel>>
    /\ UNCHANGED <<storeVars, formVars>>

\* log calls at the given levels, at most maxAccepted of them stored between
\* two clearLogs
LoggerCalls(levelsIn, maxAccepted) ==
    \/ \E level \in levelsIn : accepted < maxAccepted /\ Log(level, accepted + 1)
    \/ ClearLogs

\* a logger created with any logLevel option, called at every level
LevelInit ==
    /\ InitStore
    /\ InitForm
    /\ \E name \in LevelNames \cup {Undefined} : constructor([logLevel |-> name])

LevelNext == LoggerCalls(LevelNames, MaxLogCalls)

LevelSpec == LevelInit /\ [][LevelNext]_vars

\* the server's logger called until its array overflows
BufferNext == LoggerCalls({"info", "debug"}, MaxStoredLogs + MaxOverflow)

BufferSpec == Init /\ [][BufferNext]_vars

---------------------------------------------------------------------------
(* Clicks on the buttons of the shortener form *)

addUrlInput ==
    /\ NewId(urls) <= MaxId
    /\ IF Len(urls) >= MaxUrlInputs
       THEN UNCHANGED urls
       ELSE urls' = Append(urls, UrlEntry(NewId(urls)))
    /\ UNCHANGED <<storeVars, logVars>>

removeUrlInput(id) ==
    /\ IF Len(urls) <= 1
       THEN UNCHANGED urls
       ELSE urls' = SelectSeq(urls, LAMBDA u : u.id # id)
    /\ UNCHANGED <<storeVars, logVars>>

FormNext ==
    \/ addUrlInput
    \/ \E id \in 1..MaxId : removeUrlInput(id)

FormSpec == Init /\ [][FormNext]_vars

---------------------------------------------------------------------------
(* The store under requests drawn from the given input sets *)

Requests(creates, paths, referers) ==
    \/ \E in \in creates : CreateShortUrl(in[1][1], in[1][2], in[2])
    \/ GenerateStep
    \/ \E shortCode \in paths : GetStats(shortCode)
    \/ \E shortCode \in paths, referer \in referers : Redirect(shortCode, referer)
    \/ ListUrls
    \/ Sweep
    \/ Tick

\* the bodies {url, validity, shortcode} posted: a long-lived link to one URL
\* and a one-minute link to another, each with no code and with each custom
\* code, and one body for each refusal with 400
CreateInputs ==
    ( { << <<"https:", "//example.com">>, Validity("undefined", 0) >>,
        << <<"http:", "//a.org/x">>, Validity("int", 1) >> }
      \X ({NoCode} \cup Codes) )
    \cup { << << NoUrl, Validity("undefined", 0) >>, NoCode >>,
           << << <<"ftp:", "//x.com">>, Validity("undefined", 0) >>, NoCode >>,
           << << <<"https:", "//example.com">>, Validity("int", -1) >>, NoCode >>,
           << << <<"https:", "//example.com">>, Validity("int", 1) >>, <<"a","b">> >> }

Next == Requests(CreateInputs, Codes, {NoReferer})

Spec == Init /\ [][Next]_vars

\* the bodies of CreateInputs that pass the three validations
AcceptedInputs ==
    { in \in CreateInputs :
        /\ isValidUrl(in[1][1])
        /\ ~validityRejected(WithDefault(in[1][2]))
        /\ (in[2] = NoCode \/ isValidShortCode(in[2])) }

LiveNext == Requests(AcceptedInputs, Codes, {NoReferer})

\* the timer callback runs whenever the event loop is free, and the random
\* source eventually draws a free code when there is one
LiveSpec == Init /\ [][LiveNext]_vars /\ SF_vars(Sweep) /\ WF_vars(GenerateStep)

---------------------------------------------------------------------------
(* POST /shorturls under bodies of every shape *)

\* urls the handler refuses
BadUrlInputs ==
    { NoUrl,                           \* missing
      <<"ftp:", "//x.com">>,           \* another scheme
      <<"", "example.com">> }          \* not absolute: new URL() throws

ValidityInputs ==
    { Validity("undefined", 0),   \* omitted
      Validity("int", 1),
      Validity("int", 0),
      Validity("int", -1),
      Validity("null", 0),        \* null
      Validity("float", 1),       \* 1.5
      Validity("string", 0) }     \* "abc"

\* one url that is accepted, with each validity and each shortcode
ValidationInputs ==
    ({ <<"https:", "//example.com">> } \X ValidityInputs) \X ShortcodeInputs

\* each refused url with each validity and each shortcode, and one-minute
\* links under the custom codes
UrlCheckInputs ==
    ((BadUrlInputs \X ValidityInputs) \X ShortcodeInputs)
    \cup ({ << <<"http:", "//a.org/x">>, Validity("int", 1) >> } \X Codes)

UrlCheckNext ==
    \/ \E in \in UrlCheckInputs : CreateShortUrl(in[1][1], in[1][2], in[2])
    \/ Sweep
    \/ Tick

UrlCheckSpec == Init /\ [][UrlCheckNext]_vars

ValidationNext ==
    \/ \E in \in ValidationInputs : CreateShortUrl(in[1][1], in[1][2], in[2])
    \/ GenerateStep
    \/ Sweep
    \/ Tick

ValidationSpec == Init /\ [][ValidationNext]_vars

---------------------------------------------------------------------------
(* GET /:shortCode with and without a Referer header *)

\* the Referer header: absent, empty, or the page the visitor came from
RefererInputs == { NoReferer, "", "https://google.com" }

\* one-minute links under the custom codes
RefererCreates == { << <<"http:", "//a.org/x">>, Validity("int", 1) >> } \X Codes

RefererNext ==
    \/ \E in \in RefererCreates : CreateShortUrl(in[1][1], in[1][2], in[2])
    \/ \E shortCode \in Codes : GetStats(shortCode)
    \/ \E shortCode \in Codes, referer \in RefererInputs : Redirect(shortCode, referer)
    \/ Sweep
    \/ Tick

RefererSpec == Init /\ [][RefererNext]_vars

---------------------------------------------------------------------------
(* A code that is created, visited, removed and created again *)

\* the code of the first link
FirstCode == generateShortCode(<<1, 1, 1, 1, 1, 1>>)

\* the server after POST /shorturls {url, validity: 1, shortcode: FirstCode}
\* and one GET /FirstCode, both at minute 0
VisitedInit ==
    /\ now = 0
    /\ alloc = Idle
    /\ urlDatabase =
          MapSet(<< >>, FirstCode,
                 [urlRecord(<<"http:", "//a.org/x">>, FirstCode, 1) EXCEPT !.clicks = 1])
    /\ clickAnalytics = MapSet(<< >>, FirstCode, << ClickEvent(NoReferer) >>)
    /\ hits = [c \in Keys |-> IF c = FirstCode THEN << 0 >> ELSE << >>]
    /\ resp = [ op |-> "redirect", status |-> 302,
                body |-> [ location |-> <<"http:", "//a.org/x">> ] ]
    /\ InitForm
    /\ constructor([logLevel |-> "info"])

\* one-minute and default links under the custom codes
RecreateInputs ==
    { << <<"http:", "//a.org/x">>, Validity("int", 1) >>,
      << <<"https:", "//example.com">>, Validity("undefined", 0) >> } \X Codes

RecreateNext ==
    \/ \E in \in RecreateInputs : CreateShortUrl(in[1][1], in[1][2], in[2])
    \/ \E shortCode \in Codes : GetStats(shortCode)
    \/ \E shortCode \in Codes : Redirect(shortCode, NoReferer)
    \/ Sweep
    \/ Tick

RecreateSpec == VisitedInit /\ [][RecreateNext]_vars

---------------------------------------------------------------------------
(* Vocabulary of the properties *)

Stored(c) == MapHas(urlDatabase, c)
Rec(c) == MapGet(urlDatabase, c)
ExpiryOf(c) == ParseDate(Rec(c).expiry)
CreatedAtOf(c) == ParseDate(Rec(c).createdAt)

\* a request body with a URL and a lifetime the interface accepts
GoodUrl(url) == url # NoUrl /\ url[1] \in {"http:", "https:"}
GoodValidity(v) == v.kind = "undefined" \/ (v.kind = "int" /\ v.n >= 1)
GoodBodies == { in \in CreateInputs : GoodUrl(in[1][1]) /\ GoodValidity(in[1][2]) }

Post(in) == CreateShortUrl(in[1][1], in[1][2], in[2])

\* a step that answers 201: the POST handler, or the retry loop finishing
Created == ((\E in \in CreateInputs : Post(in)) \/ GenerateStep) /\ resp'.status = 201

ListedCodes(r) == { r.body.urls[i].shortCode : i \in 1..Len(r.body.urls) }

---------------------------------------------------------------------------
\* C1: in every reachable state no two stored records have the same shortCode
\* (and each is stored under its own shortCode), and a step that answers 201
\* adds its key, the trailing segment of the shortLink, as a new entry: the key
\* was not stored before and every entry stored before is kept as it was.
UniqueKeys ==
    \A i, j \in 1..Len(urlDatabase) :
        /\ urlDatabase[i].key = urlDatabase[i].value.shortCode
        /\ urlDatabase[i].value.shortCode = urlDatabase[j].value.shortCode => i = j

NoOverwrite ==
    Created =>
        /\ ~Stored(TrailingSegment(resp'.body.shortLink))
        /\ Len(urlDatabase') = Len(urlDatabase) + 1
        /\ \A i \in 1..Len(urlDatabase) : urlDatabase'[i] = urlDatabase[i]

C1_OneRecordPerCode == []UniqueKeys /\ [][NoOverwrite]_vars

\* a 201 was answered while another record was already stored
C1_Witness ==
    /\ resp.op = "create" /\ resp.status = 201
    /\ Len(urlDatabase) = 2

\* C2: every stored record has a click log under the same key in
\* clickAnalytics, and its clicks counter equals the length of that log.
C2_ClicksEqualLog ==
    \A i \in 1..Len(urlDatabase) :
        /\ MapHas(clickAnalytics, urlDatabase[i].key)
        /\ urlDatabase[i].value.clicks = Len(MapGet(clickAnalytics, urlDatabase[i].key))

C2_Witness == \E c \in Codes : Stored(c) /\ Rec(c).clicks = 2

\* What a record that must not be used looks like to the three read paths:
\* a redirect of c answers no 302 and logs no click, the stats of c answer no
\* 200, and a listing does not include c.
Refused(c) ==
    /\ Redirect(c, NoReferer) =>
         /\ resp'.status # 302
         /\ MapHas(clickAnalytics', c) => MapGet(clickAnalytics', c) = MapGet(clickAnalytics, c)
         /\ MapHas(urlDatabase', c) => MapGet(urlDatabase', c).clicks = Rec(c).clicks
    /\ GetStats(c) => resp'.status # 200
    /\ ListUrls => c \notin ListedCodes(resp')

RoundTrips(url) ==
    LET key == TrailingSegment(resp'.body.shortLink) IN
    /\ MapHas(urlDatabase', key)
    /\ MapGet(urlDatabase', key).originalUrl = url

C4_Step ==
    /\ \A in \in CreateInputs : (Post(in) /\ resp'.status = 201) => RoundTrips(in[1][1])
    /\ (GenerateStep /\ resp'.status = 201) => RoundTrips(alloc.url)
    /\ \A c \in Codes :
         (Stored(c) /\ MapHas(urlDatabase', c)) =>
             MapGet(urlDatabase', c).originalUrl = Rec(c).originalUrl
    /\ \A c \in Codes :
         (Stored(c) /\ now < ExpiryOf(c) /\ Redirect(c, NoReferer)) =>
             /\ resp'.status = 302
             /\ resp'.body.location = Rec(c).originalUrl

C4_RoundTrip == [][C4_Step]_vars

\* a redirect answered 302 to the url of a record that is stored
C4_Witness ==
    /\ resp.op = "redirect" /\ resp.status = 302
    /\ \E c \in Codes : Stored(c) /\ resp.body.location = Rec(c).originalUrl

\* C5, in the case the claim names: a well-formed custom code whose record has
\* expired (now > expiry) and is still stored is accepted with 201.
C5_ExpiredCodeAccepted ==
    [][\A in \in GoodBodies :
         (in[2] \in Codes /\ Stored(in[2]) /\ now > ExpiryOf(in[2]) /\ Post(in))
             => resp'.status = 201]_vars

\* C6: a create with a custom code held by a stored record with now < expiry
\* answers 409 'Shortcode already exists' and leaves both maps as they were
\* (no record under another key, the held record untouched).
C6_LiveCollision ==
    [][\A in \in GoodBodies :
         (in[2] \in Codes /\ Stored(in[2]) /\ now < ExpiryOf(in[2]) /\ Post(in)) =>
             /\ resp'.status = 409
             /\ resp'.body.error = "Shortcode already exists"
             /\ urlDatabase' = urlDatabase
             /\ clickAnalytics' = clickAnalytics]_vars

\* a create was answered 409 while a live record is stored
C6_Witness ==
    /\ resp.op = "create" /\ resp.status = 409
    /\ \E c \in Codes : Stored(c) /\ now < ExpiryOf(c)

\* C7: when the stats of c answer 200, after the N redirects of c that were
\* answered 302 since c was created (hits[c]), clicks is N and clickData has
\* N entries, the i-th carrying the time of the i-th redirect, in time order.
C7_Step ==
    \A c \in Codes :
        (Stored(c) /\ GetStats(c) /\ resp'.status = 200) =>
            LET body == resp'.body
                N == Len(hits[c])
            IN /\ body.clicks = N
               /\ Len(body.clickData) = N
               /\ \A i \in 1..N : body.clickData[i].timestamp = ToISOString(hits[c][i])
               /\ \A i, j \in 1..N :
                    i < j => ParseDate(body.clickData[i].timestamp)
                               <= ParseDate(body.clickData[j].timestamp)

C7_ClicksAfterRedirects == [][C7_Step]_vars

\* the stats report two clicks made at different times
C7_Witness ==
    /\ resp.op = "stats" /\ resp.status = 200
    /\ resp.body.clicks = 2
    /\ resp.body.clickData[1].timestamp # resp.body.clickData[2].timestamp

\* a stored record made with validity = 1
OneMinute(c) == Stored(c) /\ ExpiryOf(c) = CreatedAtOf(c) + 1

C8_Step ==
    \A c \in Codes :
        (GetStats(c) \/ Redirect(c, NoReferer)) =>
            /\ (OneMinute(c) /\ now > CreatedAtOf(c) + 1) =>
                 /\ resp'.status = 410
                 /\ ~MapHas(urlDatabase', c)
                 /\ ~MapHas(clickAnalytics', c)
            /\ ~Stored(c) =>
                 /\ resp'.status = 404
                 /\ urlDatabase' = urlDatabase
                 /\ clickAnalytics' = clickAnalytics

LoopBlocked ==
    /\ alloc # Idle
    /\ \A draw \in RandomDraws : MapHas(urlDatabase, generateShortCode(draw))

\* C10: a stored record past its expiry is eventually gone from urlDatabase and
\* from clickAnalytics, as long as the event loop is not held for ever by the
\* retry loop (the timer cannot fire then).
C10_EventuallySwept ==
    \A c \in Codes :
        (Stored(c) /\ now > ExpiryOf(c))
            ~> ((~Stored(c) /\ ~MapHas(clickAnalytics, c)) \/ LoopBlocked)

\* a sweep tick removed an expired record
C10_Witness == resp.op = "sweep" /\ resp.removedCount >= 1

---------------------------------------------------------------------------
\* C17, as stated: for a logger created with logLevel in {error, warn, info,
\* debug}, a log call at level L stores its entry if and only if the rank of L
\* is at or below the rank of the configured level; so every stored entry has
\* a level ranked at or below the configured one.
RankOfEntry(entry) ==
    levels[CHOOSE name \in LevelNames : ToUpperCase(name) = entry.level]

C17_LevelFilter ==
    /\ [][\A L \in LevelNames :
            Log(L, accepted + 1) =>
                ((affordmedLogs' # affordmedLogs) <=> levels[L] <= levels[logLevel])]_vars
    /\ [](\A i \in 1..Len(affordmedLogs) :
            RankOfEntry(affordmedLogs[i]) <= levels[logLevel])

\* C18: the stored array holds at most 1000 entries, and they are the most
\* recent of the entries stored since the array was last emptied, oldest
\* first: with n stored since then, the entries numbered n - length + 1 .. n.
C18_LastThousand ==
    /\ Len(affordmedLogs) <= 1000
    /\ Len(affordmedLogs) = IF accepted <= 1000 THEN accepted ELSE 1000
    /\ \A i \in 1..Len(affordmedLogs) :
          affordmedLogs[i].message = accepted - Len(affordmedLogs) + i

\* the array is full and older entries have been dropped
C18_Witness == accepted > 1000 /\ Len(affordmedLogs) = 1000

---------------------------------------------------------------------------
PostAny(in) == CreateShortUrl(in[1][1], in[1][2], in[2])

StoreUnchanged == urlDatabase' = urlDatabase /\ clickAnalytics' = clickAnalytics

\* a validity that is given and is not an integer >= 1
BadValidity(v) == v.kind # "undefined" /\ ~(v.kind = "int" /\ v.n >= 1)

\* 3 to 10 characters, each of [A-Za-z0-9]
WellFormedCode(code) ==
    /\ Len(code) \in 3..10
    /\ \A i \in 1..Len(code) : code[i] \in Alphabet

\* C11, as stated: a create whose url is acceptable (and whose shortcode is
\* absent or well formed) and whose validity is given and is not a positive
\* integer (0, a negative integer, a non-integer, null, a non-number) answers
\* 400 'Invalid validity period' and stores nothing; a validity that is an
\* integer >= 1 is not refused as invalid.
C11_InvalidValidityRejected ==
    [][\A in \in ValidationInputs :
         (GoodUrl(in[1][1]) /\ (in[2] = NoCode \/ WellFormedCode(in[2])) /\ PostAny(in)) =>
             IF BadValidity(in[1][2])
             THEN /\ resp'.status = 400
                  /\ resp'.body.error = "Invalid validity period"
                  /\ StoreUnchanged
             ELSE resp'.status = 400 => resp'.body.error # "Invalid validity period"]_vars

\* C12: a create whose url is missing or is not an absolute http or https URL
\* answers 400 with the error of the url check and stores nothing, whatever
\* the validity and the shortcode of the same body are.
C12_InvalidUrlRejected ==
    [][\A in \in UrlCheckInputs :
         (~GoodUrl(in[1][1]) /\ PostAny(in)) =>
             /\ resp'.status = 400
             /\ resp'.body.error =
                  (IF in[1][1] = NoUrl THEN "URL is required" ELSE "Invalid URL format")
             /\ StoreUnchanged]_vars

\* a url was refused while both codes of the request bodies are stored
C12_Witness ==
    /\ resp.op = "create" /\ resp.status = 400
    /\ resp.body.error = "Invalid URL format"
    /\ Len(urlDatabase) = 2

BadCodeRefused ==
    /\ resp'.status = 400
    /\ resp'.body.error = "Invalid shortcode format"
    /\ StoreUnchanged

\* C13, as stated: a create with an acceptable url and validity and a shortcode
\* that is given and is not well formed (the empty string included) answers
\* 400 'Invalid shortcode format', not 409, and stores nothing.
C13_Original ==
    [][\A in \in ValidationInputs :
         (GoodUrl(in[1][1]) /\ GoodValidity(in[1][2])
            /\ ~WellFormedCode(in[2]) /\ PostAny(in)) => BadCodeRefused]_vars

\* C13 amended: the same for a shortcode that is not the empty string (the
\* empty string is handled as no shortcode: a code is generated).
C13_BadFormatRefused ==
    [][\A in \in ValidationInputs :
         (GoodUrl(in[1][1]) /\ GoodValidity(in[1][2])
            /\ in[2] # NoCode /\ ~WellFormedCode(in[2]) /\ PostAny(in))
                => BadCodeRefused]_vars

\* a shortcode was refused for its format while records are stored
C13_Witness ==
    /\ resp.op = "create" /\ resp.status = 400
    /\ resp.body.error = "Invalid shortcode format"
    /\ Len(urlDatabase) >= 1

---------------------------------------------------------------------------
\* C14, as stated: the stats of any code (absent, live or expired) leave the
\* stored records, their clicks and their click logs as they were.
C14_Original ==
    [][\A c \in Codes : GetStats(c) => StoreUnchanged]_vars

\* C14 amended: the stats of a code that is absent or stored with
\* now <= expiry leave both maps as they were; the stats of a code stored with
\* now > expiry answer 410 and delete that code's record and click log, and
\* nothing else.
C14_StatsFrame ==
    [][\A c \in Codes :
         GetStats(c) =>
             IF Stored(c) /\ now > ExpiryOf(c)
             THEN /\ resp'.status = 410
                  /\ urlDatabase' = MapDelete(urlDatabase, c)
                  /\ clickAnalytics' = MapDelete(clickAnalytics, c)
             ELSE StoreUnchanged]_vars

\* the stats found a record expired and another record is still stored
C14_Witness ==
    /\ resp.op = "stats" /\ resp.status = 410
    /\ Len(urlDatabase) >= 1

\* C15: a listing leaves both maps as they were: no record, live or expired,
\* is deleted, and no clicks counter or click log changes.
C15_ListFrame == [][ListUrls => StoreUnchanged]_vars

\* a listing was answered while an expired record with a click is stored
C15_Witness ==
    /\ resp.op = "list"
    /\ \E c \in Codes :
          Stored(c) /\ now > ExpiryOf(c) /\ Len(MapGet(clickAnalytics, c)) >= 1

\* the record and the click log of c are after the step what they were before
Kept(c) ==
    /\ MapHas(urlDatabase', c)
    /\ MapHas(clickAnalytics', c)
    /\ MapGet(urlDatabase', c) = Rec(c)
    /\ MapGet(clickAnalytics', c) = MapGet(clickAnalytics, c)

Removed(c) == ~MapHas(urlDatabase', c) /\ ~MapHas(clickAnalytics', c)

KeySet(m) == { m[i].key : i \in 1..Len(m) }

\* C20: in every state a handler or a sweep tick can start from (and while
\* the retry loop holds the event loop), urlDatabase and clickAnalytics have
\* the same keys.
C20_SameKeys == KeySet(urlDatabase) = KeySet(clickAnalytics)

\* a redirect removed an expired record and one record is left in each map
C20_Witness ==
    /\ resp.op = "redirect" /\ resp.status = 410
    /\ Len(urlDatabase) = 1 /\ Len(clickAnalytics) = 1

---------------------------------------------------------------------------
\* C16, as stated: GET /health is answered by the health check, with status
\* 200 and a body with status 'healthy' and totalUrls the number of stored
\* records, whether or not a record with the code 'health' is stored, and the
\* request changes nothing in the store.
C16_HealthAnswered ==
    [][Get(<< SegHealth >>, NoReferer) =>
           /\ resp'.op = "health"
           /\ resp'.status = 200
           /\ resp'.body.status = "healthy"
           /\ resp'.body.totalUrls = Len(urlDatabase)
           /\ StoreUnchanged]_vars

---------------------------------------------------------------------------
\* C27: the shortener form always has between 1 and 5 URL input entries, and
\* no two of them have the same id.
C27_FormEntries ==
    /\ Len(urls) >= 1
    /\ Len(urls) <= 5
    /\ \A i, j \in 1..Len(urls) : urls[i].id = urls[j].id => i = j

\* five entries, after entries were removed and added again
C27_Witness == Len(urls) = 5 /\ urls[1].id > 1

---------------------------------------------------------------------------
\* the store a sweep tick leaves, from the store as it is now
SweptNow == SweepLoop(urlDatabase, urlDatabase, clickAnalytics)

\* the store a sweep tick leaves when it runs after the step
SweptAfter == SweepLoop(urlDatabase', urlDatabase', clickAnalytics')

ReadOf(c) == GetStats(c) \/ Redirect(c, NoReferer)

\* For a stored record c with now > expiry: a sweep tick removes c and a read
\* of c after it answers 404; a read of c answers 410 and removes c, and a
\* sweep tick after it leaves the store the sweep tick alone would have left
\* (a read after the sweep changes nothing); no step answers 500.
RaceAgrees(c) ==
    /\ resp'.status # 500
    /\ Sweep => (Removed(c) /\ LookupStatus(c)' = 404)
    /\ ReadOf(c) =>
          /\ resp'.status = 410
          /\ Removed(c)
          /\ SweptAfter = SweptNow

\* C21, as stated: the race agrees, and the store at the end of either order
\* is the store before with c taken out of both maps and every other record
\* as it was.
C21_Original ==
    [][\A c \in Codes :
         (Stored(c) /\ now > ExpiryOf(c)) =>
             /\ RaceAgrees(c)
             /\ SweptNow = [ db |-> MapDelete(urlDatabase, c),
                             ca |-> MapDelete(clickAnalytics, c) ]]_vars

\* C21 amended: the race agrees, and the store at the end of either order is
\* the store before without c and without the other records that have
\* now > expiry; every record with now <= expiry is as it was.
C21_RaceAgrees ==
    [][\A c \in Codes :
         (Stored(c) /\ now > ExpiryOf(c)) =>
             /\ RaceAgrees(c)
             /\ SweptNow.db = SelectSeq(MapDelete(urlDatabase, c),
                                        LAMBDA e : now <= ParseDate(e.value.expiry))
             /\ SweptNow.ca = SelectSeq(MapDelete(clickAnalytics, c),
                                        LAMBDA e : now <= ExpiryOf(e.key))]_vars

\* a read removed an expired record while another expired record is stored,
\* which the sweep tick has still to remove
C21_Witness ==
    /\ resp.op \in {"stats", "redirect"} /\ resp.status = 410
    /\ \E d \in Codes : Stored(d) /\ now > ExpiryOf(d)

\* C23: between two states that both store c, the record of c and its click
\* log are the same, except over a redirect of c answered 302, which adds one
\* to clicks, appends one event to the log and leaves shortCode, originalUrl,
\* createdAt and expiry as they were.
C23_Step ==
    \A c \in Codes :
        (Stored(c) /\ MapHas(urlDatabase', c)) =>
            LET rec == Rec(c)
                log == MapGet(clickAnalytics, c)
                recAfter == MapGet(urlDatabase', c)
                logAfter == MapGet(clickAnalytics', c)
            IN IF Redirect(c, NoReferer) /\ resp'.status = 302
               THEN /\ recAfter = [rec EXCEPT !.clicks = rec.clicks + 1]
                    /\ Len(logAfter) = Len(log) + 1
                    /\ SubSeq(logAfter, 1, Len(log)) = log
                    /\ logAfter[Len(logAfter)].timestamp = ToISOString(now)
               ELSE /\ recAfter = rec
                    /\ logAfter = log

C23_OnlyRedirectMutates == [][C23_Step]_vars

\* a redirect was answered 302 while a record without clicks is stored
C23_Witness ==
    /\ resp.op = "redirect" /\ resp.status = 302
    /\ \E c, d \in Codes : /\ Stored(c) /\ Stored(d)
                            /\ Rec(c).clicks >= 1 /\ Rec(d).clicks = 0

\* the step added one entry at the end of each map and kept the others
OneAdded ==
    /\ Len(urlDatabase') = Len(urlDatabase) + 1
    /\ SubSeq(urlDatabase', 1, Len(urlDatabase)) = urlDatabase
    /\ Len(clickAnalytics') = Len(clickAnalytics) + 1
    /\ SubSeq(clickAnalytics', 1, Len(clickAnalytics)) = clickAnalytics

CreateFrame == IF resp'.status = 201 THEN OneAdded ELSE StoreUnchanged

\* C30: a create that answers 400 or 409 (or that is still in the retry
\* loop) leaves both maps as they were, and a create adds exactly one record,
\* with its click log, when and only when it answers 201.
C30_CreateFrame ==
    [][/\ \A in \in CreateInputs : Post(in) => CreateFrame
       /\ GenerateStep => CreateFrame]_vars

\* a create was answered 400 while two records are stored
C30_Witness ==
    /\ resp.op = "create" /\ resp.status = 400
    /\ Len(urlDatabase) = 2 /\ Len(clickAnalytics) = 2

\* a create without a requested shortcode: the handler, or its retry loop
Allocating ==
    \/ \E in \in AcceptedInputs : in[2] = NoCode /\ Post(in)
    \/ GenerateStep

\* some code the generator can draw is not a key of the store
SomeCodeFree == \E draw \in RandomDraws : ~MapHas(urlDatabase, generateShortCode(draw))

\* C24: a create without a requested shortcode that answers 201 returns a
\* generated code that was not a key of the store before the insertion; a
\* retry loop that is running while some generable code is free ends (under
\* fair random choice); and when every generable code is taken the loop stays
\* in the loop for ever: nothing is answered and nothing is stored.
C24_Allocation ==
    /\ [][(Allocating /\ resp'.status = 201) =>
            \E draw \in RandomDraws :
                /\ TrailingSegment(resp'.body.shortLink) = generateShortCode(draw)
                /\ ~MapHas(urlDatabase, generateShortCode(draw))
                /\ MapHas(urlDatabase', generateShortCode(draw))]_vars
    /\ (alloc # Idle /\ SomeCodeFree) ~> (alloc = Idle)
    /\ [][LoopBlocked => (LoopBlocked' /\ resp' = NoResp /\ StoreUnchanged)]_vars

\* the retry loop is running after a draw of a taken code, and a code is free
C24_Witness == alloc # Idle /\ SomeCodeFree /\ Len(urlDatabase) >= 1

\* the record and click log stored by a step that answered 201
NewCode == TrailingSegment(resp'.body.shortLink)
NewRecord == MapGet(urlDatabase', NewCode)

\* the record was created with the given number of minutes
CreatedWith(minutes) ==
    /\ NewRecord.clicks = 0
    /\ MapGet(clickAnalytics', NewCode) = << >>
    /\ ParseDate(NewRecord.expiry) = ParseDate(NewRecord.createdAt) + minutes
    /\ resp'.body.expiry = NewRecord.expiry

\* C25, as stated: a create that answers 201 has stored a record with
\* clicks = 0, an empty click log and expiry = createdAt + validity minutes
\* (30 when validity is omitted); the expiry of the response is the stored
\* expiry, and it is strictly later than createdAt.
C25_CreatedRecord ==
    [][/\ \A in \in ValidationInputs :
             (PostAny(in) /\ resp'.status = 201) =>
                 /\ CreatedWith(IF in[1][2].kind = "undefined"
                                THEN DefaultValidity ELSE in[1][2].n)
                 /\ ParseDate(NewRecord.expiry) > ParseDate(NewRecord.createdAt)
       /\ (GenerateStep /\ resp'.status = 201) =>
             /\ CreatedWith(alloc.minutes)
             /\ ParseDate(NewRecord.expiry) > ParseDate(NewRecord.createdAt)]_vars

\* the click a redirect of c has just appended to the log of c
LastClick(c) == MapGet(clickAnalytics', c)[Len(MapGet(clickAnalytics', c))]

\* a stats answer of 200 for c shows each stored click, in order, with its
\* timestamp, 'Direct' for a null referrer, location 'Unknown' and no other
\* field, and leaves the store as it was
StatsRendersDefaults(c) ==
    LET log == MapGet(clickAnalytics, c)
        shown == resp'.body.clickData
    IN /\ StoreUnchanged
       /\ Len(shown) = Len(log)
       /\ \A i \in 1..Len(log) :
            /\ DOMAIN shown[i] = {"timestamp", "referrer", "location"}
            /\ shown[i].timestamp = log[i].timestamp
            /\ shown[i].referrer = IF log[i].referrer = NoReferer
                                   THEN "Direct" ELSE log[i].referrer
            /\ shown[i].location = "Unknown"

\* C26, as stated: neither default is stored. A redirect answered 302
\* without a Referer stores a click whose referrer is null and whose location
\* is not the default 'Unknown'; stats renders the defaults and only the
\* three fields, and leaves the stored click as it was.
C26_Original ==
    [][\A c \in Codes :
         /\ (Redirect(c, NoReferer) /\ resp'.status = 302) =>
               /\ LastClick(c).referrer = NoReferer
               /\ LastClick(c).location # "Unknown"
         /\ (GetStats(c) /\ resp'.status = 200) => StatsRendersDefaults(c)]_vars

\* C26 amended: the default of the referrer is applied at read time only; the
\* location 'Unknown' is already stored at write time. A redirect answered
\* 302 stores a click whose referrer is null without a Referer (the given
\* one otherwise) and whose location is 'Unknown'; stats renders 'Direct' for
\* null, location 'Unknown' and only the three fields, and leaves the stored
\* click as it was.
C26_DefaultsAtRead ==
    [][\A c \in Codes :
         /\ \A referer \in RefererInputs :
               (Redirect(c, referer) /\ resp'.status = 302) =>
                   /\ LastClick(c).referrer =
                         (IF referer \in {NoReferer, ""} THEN NoReferer ELSE referer)
                   /\ LastClick(c).location = "Unknown"
         /\ (GetStats(c) /\ resp'.status = 200) => StatsRendersDefaults(c)]_vars

\* stats has shown one click as 'Direct' and another with its referrer
C26_Witness ==
    /\ resp.op = "stats" /\ resp.status = 200
    /\ \E i, j \in 1..Len(resp.body.clickData) :
          /\ resp.body.clickData[i].referrer = "Direct"
          /\ resp.body.clickData[j].referrer = "https://google.com"

\* the redirect of c refused an expired record: 410, the record and its click
\* log are gone, and every other record and log is as it was (no click was
\* appended and no counter incremented)
ExpiredRefused(c) ==
    /\ resp'.status = 410
    /\ urlDatabase' = MapDelete(urlDatabase, c)
    /\ clickAnalytics' = MapDelete(clickAnalytics, c)

C28_FreshRecord ==
    /\ [][\A in \in RecreateInputs :
            (~Stored(in[2]) /\ Post(in)) =>
                /\ resp'.status = 201
                /\ MapHas(urlDatabase', in[2]) /\ MapHas(clickAnalytics', in[2])
                /\ MapGet(urlDatabase', in[2]).clicks = 0
                /\ MapGet(clickAnalytics', in[2]) = << >>
                /\ MapGet(urlDatabase', in[2]).createdAt = ToISOString(now)]_vars
    /\ [](\A c \in Codes :
            Stored(c) =>
                /\ Rec(c).clicks = Len(ClicksOf(c))
                /\ \A i \in 1..Len(ClicksOf(c)) :
                      ParseDate(ClicksOf(c)[i].timestamp) >= CreatedAtOf(c))

\* the first code, visited once before, is stored again as a later record
\* without clicks
C28_Witness ==
    /\ Stored(FirstCode)
    /\ CreatedAtOf(FirstCode) > 0
    /\ Rec(FirstCode).clicks = 0
    /\ ClicksOf(FirstCode) = << >>

\* C29: a read of c that answers 410 removes the record of c, so that the
\* next read of c finds nothing (404); a read of a code that is not stored
\* answers 404 and changes nothing; a code that is not stored becomes stored
\* only by a create that answers 201; and a sweep tick that meets the expired
\* record of c removes it in the same way, so that no read of c answers 410
\* after it.
C29_Step ==
    \A c \in Codes :
        /\ (ReadOf(c) /\ resp'.status = 410) =>
              (Stored(c) /\ Removed(c) /\ LookupStatus(c)' = 404)
        /\ (~Stored(c) /\ ReadOf(c)) => (resp'.status = 404 /\ StoreUnchanged)
        /\ (~Stored(c) /\ MapHas(urlDatabase', c)) =>
              (resp'.op = "create" /\ resp'.status = 201)
        /\ (Sweep /\ Stored(c) /\ now > ExpiryOf(c)) =>
              (Removed(c) /\ LookupStatus(c)' = 404)

C29_OneExpiredAnswer == [][C29_Step]_vars

\* the stats of the first code, stored at the start and removed since, was
\* answered 404 while the other code is stored
C29_Witness ==
    /\ resp.op = "stats" /\ resp.status = 404
    /\ ~Stored(FirstCode)
    /\ \E c \in Codes : Stored(c)

====
